---- MODULE Spec2Model ----
(***************************************************************************)
(* Model of the process scheduling simulator (scheduler.py): the Process   *)
(* data model, simulate_fcfs, simulate_sjf_nonpreemptive, simulate_rr,     *)
(* update_originals, coalesce_timeline and compute_metrics, as driven by   *)
(* a caller that builds a process list, runs one algorithm on it and then  *)
(* asks for the metrics (views.py, main).                                  *)
(*                                                                         *)
(* A pid i stands for the string "P<i>"; for single-digit i the string     *)
(* order of Python is the numeric order.  Python's None is the value None. *)
(* A timeline segment is the tuple <<start, end, pid>> of the code.        *)
(***************************************************************************)
EXTENDS Integers, Sequences, FiniteSets

\* ---------------------------------------------------------------- bounds
\* Spec: lists of at most MaxProcs processes, arrivals 0..MaxArrival, positive
\* bursts that add up to at most MaxTotalBurst, quanta 0..MaxQuantum.
MaxProcs == 3
MaxArrival == 2
MaxTotalBurst == 5
MaxQuantum == 2

\* SpecRR: Round Robin alone, on fewer processes with longer bursts.
RRMaxProcs == 2
RRMaxArrival == 1
RRMaxBurst == 4

\* SpecRerun: a caller that runs algorithm after algorithm on one short list.
CallerMaxProcs == 2
CallerMaxArrival == 2
CallerMaxTotalBurst == 3

\* SpecCoalesce: coalesce_timeline alone, on any short list of segments.
MaxSegments == 3
MaxTime == 2

\* Python's None (Optional[int] fields, and the pid of an idle segment).
None == -1

\* The quantum a caller passes along when the algorithm is not Round Robin.
DefaultQuantum == 2

VARIABLES
    procs,      \* the caller's list of Process objects
    algo,       \* "fcfs" | "sjf" | "rr"
    quantum,    \* the quantum handed to simulate_rr
    pc,         \* position of the caller / of the running algorithm
    P,          \* the algorithm's working copy (deep_copy_procs)
    t,          \* the clock
    timeline,   \* the raw timeline built by the algorithm
    ready,      \* simulate_rr: the ready queue (indices into P)
    done,       \* simulate_sjf_nonpreemptive: set of finished pids
    it,         \* simulate_fcfs: position of the for loop in P
    result,     \* the timeline returned to the caller
    metrics,    \* what compute_metrics gave the caller
    hist,       \* what the caller keeps of its earlier runs on this list
    arg         \* the arguments of the Process(...) call in flight

vars == <<procs, algo, quantum, pc, P, t, timeline, ready, done, it, result, metrics,
          hist, arg>>

\* ------------------------------------------------------------ helpers
Min2(a, b) == IF a <= b THEN a ELSE b

MinOf(S) == CHOOSE x \in S : \A y \in S : x <= y

MaxOf(S) == CHOOSE x \in S : \A y \in S : y <= x

\* sum(...) of a sequence of integers.
RECURSIVE SumSeq(_)
SumSeq(s) == IF s = <<>> THEN 0 ELSE Head(s) + SumSeq(Tail(s))

\* The members of the set S of integers, as an ascending sequence.
Ascending(S) ==
    [r \in 1..Cardinality(S) |-> CHOOSE j \in S : Cardinality({m \in S : m < j}) = r - 1]

\* Python's tuple comparison a < b for two tuples of integers of equal length.
LexLess(a, b) ==
    \E k \in 1..Len(a) : a[k] < b[k] /\ \A m \in 1..(k - 1) : a[m] = b[m]

\* list.sort(key=...): a stable sort of items by the parallel sequence of keys.
\* (its, ks: the two arguments, evaluated once.)
StableSort(items, key) ==
    LET Sorted(its, ks) ==
            LET n == Len(its)
                rank(j) == 1 + Cardinality({m \in 1..n :
                                LexLess(ks[m], ks[j]) \/ (ks[m] = ks[j] /\ m < j)})
            IN [r \in 1..n |-> its[CHOOSE j \in 1..n : rank(j) = r]]
    IN CHOOSE out \in {Sorted(a[1], a[2]) : a \in {<<items, key>>}} : TRUE

\* ------------------------------------------------------ Process model
\* __post_init__: the checks a Process must pass to be constructed.
ValidProcess(arrival, burst) == burst > 0 /\ arrival >= 0

\* Checks that look at the arrival before the burst.
post_init_ArrivalFirst(arrival, burst) ==
    IF arrival < 0 THEN "invalid_arrival"
    ELSE IF burst <= 0 THEN "invalid_burst"
    ELSE "ok"

\* __post_init__: which ValueError is raised, if any.
post_init(arrival, burst) ==
    IF burst <= 0 THEN "invalid_burst"
    ELSE IF arrival < 0 THEN "invalid_arrival"
    ELSE "ok"

\* Process(pid, arrival, burst): remaining = burst, first_start and completion unset.
NewProcess(pid, arrival, burst) ==
    [pid |-> pid, arrival |-> arrival, burst |-> burst,
     remaining |-> burst, first_start |-> None, completion |-> None]

\* A copy that keeps the fields of the run before.
deep_copy_procs_Shallow(ps) == ps

deep_copy_procs(ps) ==
    [j \in 1..Len(ps) |-> NewProcess(ps[j].pid, ps[j].arrival, ps[j].burst)]

\* update_originals that forgets to copy first_start.
update_originals_NoFirstStart(target, src) ==
    [j \in 1..Len(target) |->
        LET s == src[MaxOf({m \in 1..Len(src) : src[m].pid = target[j].pid})]
        IN [target[j] EXCEPT !.completion = s.completion,
                             !.remaining = s.remaining]]

\* update_originals that forgets to copy remaining.
update_originals_NoRemaining(target, src) ==
    [j \in 1..Len(target) |->
        LET s == src[CHOOSE m \in 1..Len(src) : src[m].pid = target[j].pid]
        IN [target[j] EXCEPT !.first_start = s.first_start,
                             !.completion = s.completion]]

\* update_originals: bypid keeps the last process of src with a given pid.
update_originals(target, src) ==
    [j \in 1..Len(target) |->
        LET s == src[MaxOf({m \in 1..Len(src) : src[m].pid = target[j].pid})]
        IN [target[j] EXCEPT !.first_start = s.first_start,
                             !.completion = s.completion,
                             !.remaining = s.remaining]]

\* A test that merges equal subjects across a gap.
Mergeable_SameSubject(last, seg) == seg[3] = last[3]

\* "if pid == ppid and ps <= s == pe:", last = (ps, pe, ppid), seg = (s, e, pid).
Mergeable(last, seg) == seg[3] = last[3] /\ last[1] <= seg[1] /\ seg[1] = last[2]

\* coalesce_timeline, the loop over tl[1:] with the list merged so far.
RECURSIVE CoalesceFrom(_, _, _)
CoalesceFrom(tl, j, merged) ==
    IF j > Len(tl) THEN merged
    ELSE LET s == tl[j][1]
             e == tl[j][2]
             pid == tl[j][3]
             last == merged[Len(merged)]
             ps == last[1]
             pe == last[2]
             ppid == last[3]
         IN IF Mergeable(last, tl[j])
            THEN CoalesceFrom(tl, j + 1, [merged EXCEPT ![Len(merged)] = <<ps, e, pid>>])
            ELSE CoalesceFrom(tl, j + 1, Append(merged, <<s, e, pid>>))

coalesce_timeline(tl) ==
    IF tl = <<>> THEN tl ELSE CoalesceFrom(tl, 2, <<tl[1]>>)

\* ------------------------------------------------------------- inputs
Arrivals == 0..MaxArrival
Quanta == (-1)..MaxQuantum

\* The pids of a list of n processes: in list order, or in reverse list order.
PidOrders(n) == {[j \in 1..n |-> j], [j \in 1..n |-> n + 1 - j]}

\* The bursts of n processes: positive, MaxTotalBurst at most in all.
BurstVectors(n) ==
    {b \in [1..n -> 1..MaxTotalBurst] : SumSeq(b) <= MaxTotalBurst}

\* The lists of n processes the caller can construct from the given arrivals and
\* bursts: every Process passes the checks of __post_init__.
ListsOf(n, arrivals, burstVectors) ==
    {[j \in 1..n |-> NewProcess(pids[j], a[j], b[j])] :
        pids \in PidOrders(n), a \in [1..n -> arrivals], b \in burstVectors}

ProcessLists == UNION {ListsOf(n, Arrivals, BurstVectors(n)) : n \in 0..MaxProcs}

RRProcessLists ==
    UNION {ListsOf(n, 0..RRMaxArrival, [1..n -> 1..RRMaxBurst]) : n \in 0..RRMaxProcs}

NoMetrics == [status |-> "none"]

\* No run made yet (hist), no constructor call in flight (arg).
NoRun == [algo |-> "none"]

NoArg == [pid |-> None]

\* The state in which the caller, holding its process list, calls the algorithm.
AtCall ==
    /\ pc = "call"
    /\ P = <<>>
    /\ t = 0
    /\ timeline = <<>>
    /\ ready = <<>>
    /\ done = {}
    /\ it = 1
    /\ result = <<>>
    /\ metrics = NoMetrics
    /\ hist = [first |-> NoRun, prior |-> NoRun]
    /\ arg = NoArg

Init ==
    /\ procs \in ProcessLists
    /\ algo \in {"fcfs", "sjf", "rr"}
    /\ quantum \in (IF algo = "rr" THEN Quanta ELSE {DefaultQuantum})
    /\ AtCall

InitRR ==
    /\ procs \in RRProcessLists
    /\ algo = "rr"
    /\ quantum \in Quanta
    /\ AtCall

\* The bursts of n processes: positive, CallerMaxTotalBurst at most in all.
CallerBurstVectors(n) ==
    {b \in [1..n -> 1..CallerMaxTotalBurst] : SumSeq(b) <= CallerMaxTotalBurst}

CallerProcessLists ==
    UNION {ListsOf(n, 0..CallerMaxArrival, CallerBurstVectors(n)) : n \in 0..CallerMaxProcs}

InitRerun ==
    /\ procs \in CallerProcessLists
    /\ algo \in {"fcfs", "sjf", "rr"}
    /\ quantum \in (IF algo = "rr" THEN 1..MaxQuantum ELSE {DefaultQuantum})
    /\ AtCall

\* ------------------------------------------------------- construction
\* The caller has no process yet and is about to build its list.
InitBuild ==
    /\ procs = <<>>
    /\ algo \in {"fcfs", "sjf", "rr"}
    /\ quantum \in (IF algo = "rr" THEN 1..MaxQuantum ELSE {DefaultQuantum})
    /\ pc = "build"
    /\ P = <<>>
    /\ t = 0
    /\ timeline = <<>>
    /\ ready = <<>>
    /\ done = {}
    /\ it = 1
    /\ result = <<>>
    /\ metrics = NoMetrics
    /\ hist = [first |-> NoRun, prior |-> NoRun]
    /\ arg = NoArg

\* The bursts of the processes of a list, as a sequence.
Bursts(ps) == [j \in 1..Len(ps) |-> ps[j].burst]

\* Process(pid, arrival, burst), called for the next element of the caller's list:
\* either __post_init__ raises and the caller is left with the error, or the new
\* process joins the list.
Construct ==
    /\ pc = "build"
    /\ Len(procs) < CallerMaxProcs
    /\ \E arrival \in (-1)..CallerMaxArrival, burst \in (-1)..CallerMaxTotalBurst :
          /\ SumSeq(Bursts(procs)) + burst <= CallerMaxTotalBurst
          /\ arg' = [pid |-> Len(procs) + 1, arrival |-> arrival, burst |-> burst]
          /\ pc' = IF post_init(arrival, burst) = "ok"
                   THEN "build" ELSE post_init(arrival, burst)
          /\ procs' = IF post_init(arrival, burst) = "ok"
                      THEN Append(procs, NewProcess(Len(procs) + 1, arrival, burst))
                      ELSE procs
    /\ UNCHANGED <<algo, quantum, P, t, timeline, ready, done, it, result, metrics, hist>>

\* The list is complete: the caller hands it to the algorithm.
Submit ==
    /\ pc = "build"
    /\ pc' = "call"
    /\ UNCHANGED <<procs, algo, quantum, P, t, timeline, ready, done, it, result, metrics,
                   hist, arg>>

\* --------------------------------------------------------------- FCFS
\* A sort by pid alone: a process may be served before one that arrived earlier.
FCFSKey_PidOnly(p) == <<p.pid>>

\* A sort by arrival alone: equal arrivals keep their list order.
FCFSKey_ArrivalOnly(p) == <<p.arrival>>

FCFSKey(p) == <<p.arrival, p.pid>>

FCFSStart ==
    /\ pc = "call" /\ algo = "fcfs"
    /\ LET C == deep_copy_procs(procs)
       IN P' = StableSort(C, [j \in 1..Len(C) |-> FCFSKey(C[j])])
    /\ t' = 0
    /\ timeline' = <<>>
    /\ it' = 1
    /\ pc' = "fcfs_loop"
    /\ UNCHANGED <<procs, algo, quantum, ready, done, result, metrics, hist, arg>>

\* One pass of "for p in P".
FCFSStep ==
    /\ pc = "fcfs_loop" /\ it <= Len(P)
    /\ LET p == P[it]
           idle == t < p.arrival
           start == IF idle THEN p.arrival ELSE t
           tl1 == IF idle THEN Append(timeline, <<t, p.arrival, None>>) ELSE timeline
       IN /\ t' = start + p.burst
          /\ P' = [P EXCEPT ![it] = [p EXCEPT !.first_start = start,
                                              !.remaining = 0,
                                              !.completion = start + p.burst]]
          /\ timeline' = Append(tl1, <<start, start + p.burst, p.pid>>)
    /\ it' = it + 1
    /\ UNCHANGED <<procs, algo, quantum, pc, ready, done, result, metrics, hist, arg>>

FCFSReturn ==
    /\ pc = "fcfs_loop" /\ it > Len(P)
    /\ procs' = update_originals(procs, P)
    /\ result' = coalesce_timeline(timeline)
    /\ pc' = "returned"
    /\ UNCHANGED <<algo, quantum, P, t, timeline, ready, done, it, metrics, hist, arg>>

\* ---------------------------------------------------------------- SJF
\* A selection key without the arrival tie-break.
SJFKey_NoArrival(p) == <<p.burst, p.pid>>

SJFKey(p) == <<p.burst, p.arrival, p.pid>>

\* A ready set that leaves out the processes arriving at this very instant.
SJFReady_StrictArrival(Pw, d, ct) ==
    Ascending({j \in 1..Len(Pw) : Pw[j].arrival < ct /\ Pw[j].pid \notin d})

\* A ready set that forgets to ask whether the process has arrived.
SJFReady_NoArrivalTest(Pw, d, ct) ==
    Ascending({j \in 1..Len(Pw) : Pw[j].pid \notin d})

\* ready = [p for p in P if p.arrival <= t and p.pid not in done], as indices into P.
SJFReady(Pw, d, ct) ==
    Ascending({j \in 1..Len(Pw) : Pw[j].arrival <= ct /\ Pw[j].pid \notin d})

\* ready.sort(key=...); ready[0]
SJFPick(Pw, rdy) ==
    StableSort(rdy, [j \in 1..Len(rdy) |-> SJFKey(Pw[rdy[j]])])[1]

\* A run that stops after one time unit.
SJFRun_OneUnit(p) == 1

\* t += p.burst: the selected process runs for its whole burst.
SJFRun(p) == p.burst

SJFStart ==
    /\ pc = "call" /\ algo = "sjf"
    /\ P' = deep_copy_procs(procs)
    /\ t' = IF procs # <<>> THEN MinOf({procs[j].arrival : j \in 1..Len(procs)}) ELSE 0
    /\ done' = {}
    /\ timeline' = <<>>
    /\ pc' = "sjf_loop"
    /\ UNCHANGED <<procs, algo, quantum, ready, it, result, metrics, hist, arg>>

\* A pass of the while loop that finds nothing ready: jump to the next arrival.
SJFIdle ==
    /\ pc = "sjf_loop" /\ Cardinality(done) < Len(P)
    /\ SJFReady(P, done, t) = <<>>
    /\ LET next_t == MinOf({P[j].arrival : j \in {m \in 1..Len(P) : P[m].pid \notin done}})
       IN IF t < next_t
          THEN timeline' = Append(timeline, <<t, next_t, None>>) /\ t' = next_t
          ELSE UNCHANGED <<timeline, t>>
    /\ UNCHANGED <<procs, algo, quantum, pc, P, ready, done, it, result, metrics,
                   hist, arg>>

\* A pass of the while loop that dispatches the shortest ready process.
SJFDispatch ==
    /\ pc = "sjf_loop" /\ Cardinality(done) < Len(P)
    /\ SJFReady(P, done, t) # <<>>
    /\ LET idx == SJFPick(P, SJFReady(P, done, t))
           p == P[idx]
           end == t + SJFRun(p)
       IN /\ P' = [P EXCEPT ![idx] =
                     [p EXCEPT !.first_start = IF p.first_start = None THEN t
                                               ELSE p.first_start,
                               !.remaining = 0,
                               !.completion = end]]
          /\ t' = end
          /\ done' = done \cup {p.pid}
          /\ timeline' = Append(timeline, <<t, end, p.pid>>)
    /\ UNCHANGED <<procs, algo, quantum, pc, ready, it, result, metrics, hist, arg>>

SJFReturn ==
    /\ pc = "sjf_loop" /\ ~(Cardinality(done) < Len(P))
    /\ procs' = update_originals(procs, P)
    /\ result' = coalesce_timeline(timeline)
    /\ pc' = "returned"
    /\ UNCHANGED <<algo, quantum, P, t, timeline, ready, done, it, metrics, hist, arg>>

\* ----------------------------------------------------------------- RR
RRKey(p) == <<p.arrival, p.pid>>

InQueue(rdy, j) == \E m \in 1..Len(rdy) : rdy[m] = j

\* enqueue_arrivals(current_time): the new ready queue.
\* (a: the state the helper reads, evaluated once; newly: the processes it appends.)
enqueue_arrivals(Pw, rdy, current_time) ==
    CHOOSE out \in
        {a[2] \o StableSort(newly, [j \in 1..Len(newly) |-> RRKey(a[1][newly[j]])]) :
            <<a, newly>> \in
                {<<a, Ascending({j \in 1..Len(a[1]) :
                          /\ a[1][j].arrival <= a[3]
                          /\ a[1][j].remaining > 0
                          /\ ~InQueue(a[2], j)})>> :
                    a \in {<<Pw, rdy, current_time>>}}} : TRUE

\* A run that ignores the quantum.
RRRun_ToCompletion(q, remaining) == remaining

\* A run that always takes the whole quantum.
RRRun_WholeQuantum(q, remaining) == q

\* run = min(quantum, p.remaining)
RRRun(q, remaining) == Min2(q, remaining)

\* The state of the loop of simulate_rr: [P, t, timeline, ready, brk].
\* "if not ready:" ... up to the second "if not ready: continue".
RRIdle(s) ==
    LET future_arrivals == {s.P[j].arrival : j \in {m \in 1..Len(s.P) :
                                s.P[m].remaining > 0 /\ s.P[m].arrival > s.t}}
    IN IF future_arrivals = {}
       THEN [s EXCEPT !.brk = TRUE]
       ELSE LET next_t == MinOf(future_arrivals)
                tl1 == IF s.t < next_t
                       THEN Append(s.timeline, <<s.t, next_t, None>>) ELSE s.timeline
                t1 == IF s.t < next_t THEN next_t ELSE s.t
            IN [s EXCEPT !.timeline = tl1, !.t = t1,
                         !.ready = enqueue_arrivals(s.P, s.ready, t1)]

\* "idx = ready.pop(0)" ... to the end of the loop body.
RRDispatch(s, q) ==
    LET idx == Head(s.ready)
        rdy0 == Tail(s.ready)
        p0 == s.P[idx]
        p1 == IF p0.first_start = None THEN [p0 EXCEPT !.first_start = s.t] ELSE p0
        run == RRRun(q, p1.remaining)
        t1 == s.t + run
        p2 == [p1 EXCEPT !.remaining = p1.remaining - run]
        P2 == [s.P EXCEPT ![idx] = p2]
        rdy1 == enqueue_arrivals(P2, rdy0, t1)
    IN [s EXCEPT !.t = t1,
                 !.timeline = Append(s.timeline, <<s.t, t1, p2.pid>>),
                 !.ready = IF p2.remaining > 0 THEN Append(rdy1, idx) ELSE rdy1,
                 !.P = IF p2.remaining > 0 THEN P2
                       ELSE [P2 EXCEPT ![idx] = [p2 EXCEPT !.completion = t1]]]

\* One pass of "while any(p.remaining > 0 for p in P)".
RRPass(s, q) ==
    IF s.ready = <<>>
    THEN CHOOSE out \in {IF a.brk \/ a.ready = <<>> THEN a ELSE RRDispatch(a, q) :
                             a \in {RRIdle(s)}} : TRUE
    ELSE RRDispatch(s, q)

\* A check that lets a quantum of 0 through.
InvalidQuantum_NegativeOnly(q) == q < 0

\* "if quantum <= 0:"
InvalidQuantum(q) == q <= 0

\* raise ValueError("Quantum must be > 0 for Round Robin.")
RRRaise ==
    /\ pc = "call" /\ algo = "rr"
    /\ InvalidQuantum(quantum)
    /\ pc' = "raised"
    /\ UNCHANGED <<procs, algo, quantum, P, t, timeline, ready, done, it, result, metrics,
                   hist, arg>>

RRStart ==
    /\ pc = "call" /\ algo = "rr"
    /\ ~InvalidQuantum(quantum)
    /\ LET C == deep_copy_procs(procs)
           t0 == IF C # <<>> THEN MinOf({C[j].arrival : j \in 1..Len(C)}) ELSE 0
       IN /\ P' = C
          /\ t' = t0
          /\ ready' = enqueue_arrivals(C, <<>>, t0)
    /\ timeline' = <<>>
    /\ pc' = "rr_loop"
    /\ UNCHANGED <<procs, algo, quantum, done, it, result, metrics, hist, arg>>

RRStep ==
    /\ pc = "rr_loop"
    /\ \E j \in 1..Len(P) : P[j].remaining > 0
    /\ \E s \in {RRPass([P |-> P, t |-> t, timeline |-> timeline, ready |-> ready,
                          brk |-> FALSE], quantum)} :
          /\ P' = s.P
          /\ t' = s.t
          /\ timeline' = s.timeline
          /\ ready' = s.ready
          /\ pc' = IF s.brk THEN "rr_break" ELSE "rr_loop"
    /\ UNCHANGED <<procs, algo, quantum, done, it, result, metrics, hist, arg>>

RRReturn ==
    /\ IF pc = "rr_break" THEN TRUE
       ELSE pc = "rr_loop" /\ ~(\E j \in 1..Len(P) : P[j].remaining > 0)
    /\ procs' = update_originals(procs, P)
    /\ result' = coalesce_timeline(timeline)
    /\ pc' = "returned"
    /\ UNCHANGED <<algo, quantum, P, t, timeline, ready, done, it, metrics, hist, arg>>

\* ------------------------------------------------------------ metrics
\* A quotient a / b of the code, kept exact as numerator and denominator.
Frac(a, b) == [num |-> a, den |-> b]

\* A test that looks at the completion alone.
MissingFields_CompletionOnly(p) == p.completion = None

\* "if p.completion is None or p.first_start is None:"
MissingFields(p) == p.completion = None \/ p.first_start = None

\* compute_metrics(procs); status "error" is the RuntimeError of line 109.
compute_metrics(ps) ==
    LET n == Len(ps)
        idx == 1..n
        min_arrival == MinOf({ps[j].arrival : j \in idx})
        max_completion == MaxOf({IF ps[j].completion = None THEN 0 ELSE ps[j].completion
                                   : j \in idx})
        total_busy == SumSeq([j \in idx |-> ps[j].burst])
        total_time == IF max_completion > min_arrival
                      THEN max_completion - min_arrival ELSE 0
        tat(p) == p.completion - p.arrival
        wt(p) == tat(p) - p.burst
        rt(p) == p.first_start - p.arrival
        \* per[p.pid] = ...: a later process of the same pid overwrites an earlier one
        lastOf(pid) == ps[MaxOf({j \in idx : ps[j].pid = pid})]
    IN IF n = 0
       THEN [status |-> "ok", per_process |-> <<>>, overall |-> <<>>]
       ELSE IF \E j \in idx : MissingFields(ps[j])
       THEN [status |-> "error"]
       ELSE [status |-> "ok",
             per_process |-> [pid \in {ps[j].pid : j \in idx} |->
                                [WT |-> wt(lastOf(pid)), TAT |-> tat(lastOf(pid)),
                                 RT |-> rt(lastOf(pid)), CT |-> lastOf(pid).completion]],
             overall |-> [AVG_WT |-> Frac(SumSeq([j \in idx |-> wt(ps[j])]), n),
                          AVG_TAT |-> Frac(SumSeq([j \in idx |-> tat(ps[j])]), n),
                          AVG_RT |-> Frac(SumSeq([j \in idx |-> rt(ps[j])]), n),
                          THROUGHPUT |-> Frac(n, total_time),
                          CPU_UTIL |-> IF total_time > 0
                                       THEN Frac(total_busy * 100, total_time)
                                       ELSE Frac(0, 1)]]

\* The caller asks for the metrics of the list it has just simulated.
\* The caller keeps the first answer it got for this list.
ComputeMetrics ==
    /\ pc = "returned"
    /\ metrics' = compute_metrics(procs)
    /\ pc' = "reported"
    /\ hist' = IF hist.first = NoRun
               THEN [hist EXCEPT !.first = [algo |-> algo, quantum |-> quantum,
                                            result |-> result,
                                            metrics |-> compute_metrics(procs)]]
               ELSE hist
    /\ UNCHANGED <<procs, algo, quantum, P, t, timeline, ready, done, it, result, arg>>

\* A list a caller can hold when no algorithm, or one that has not finished every
\* process, has run on it: the process at j has its first_start set iff f[j], and its
\* completion set iff c[j], to the values of an immediate dispatch.
HeldList(ps, f, c) ==
    [j \in 1..Len(ps) |->
        [ps[j] EXCEPT !.first_start = IF f[j] THEN ps[j].arrival ELSE None,
                      !.completion = IF c[j] THEN ps[j].arrival + ps[j].burst ELSE None]]

InitMetrics ==
    /\ \E ps \in CallerProcessLists :
          \E f \in [1..Len(ps) -> BOOLEAN], c \in [1..Len(ps) -> BOOLEAN] :
             procs = HeldList(ps, f, c)
    /\ algo = "none"
    /\ quantum = DefaultQuantum
    /\ pc = "metrics_call"
    /\ P = <<>>
    /\ t = 0
    /\ timeline = <<>>
    /\ ready = <<>>
    /\ done = {}
    /\ it = 1
    /\ result = <<>>
    /\ metrics = NoMetrics
    /\ hist = [first |-> NoRun, prior |-> NoRun]
    /\ arg = NoArg

\* compute_metrics called on a list whatever its state: it returns the metrics, or
\* raises RuntimeError and returns nothing.
MetricsCall ==
    /\ pc = "metrics_call"
    /\ metrics' = compute_metrics(procs)
    /\ pc' = IF compute_metrics(procs).status = "error" THEN "metrics_raised"
             ELSE "reported"
    /\ UNCHANGED <<procs, algo, quantum, P, t, timeline, ready, done, it, result, hist, arg>>

\* The segments an algorithm can append: start <= end, of process 1 or idle.
Segments ==
    {seg \in (0..MaxTime) \X (0..MaxTime) \X {None, 1} : seg[1] <= seg[2]}

InitCoalesce ==
    /\ \E n \in 0..MaxSegments : timeline \in [1..n -> Segments]
    /\ procs = <<>>
    /\ algo = "none"
    /\ quantum = DefaultQuantum
    /\ pc = "coalesce_call"
    /\ P = <<>>
    /\ t = 0
    /\ ready = <<>>
    /\ done = {}
    /\ it = 1
    /\ result = <<>>
    /\ metrics = NoMetrics
    /\ hist = [first |-> NoRun, prior |-> NoRun]
    /\ arg = NoArg

\* coalesce_timeline called on a list of segments.
CoalesceCall ==
    /\ pc = "coalesce_call"
    /\ result' = coalesce_timeline(timeline)
    /\ pc' = "coalesced"
    /\ UNCHANGED <<procs, algo, quantum, P, t, timeline, ready, done, it, metrics, hist, arg>>

\* The caller runs an algorithm again on the list it holds: the processes carry
\* the first_start, completion and remaining of the run before.
Rerun ==
    /\ pc = "reported"
    /\ algo' \in {"fcfs", "sjf", "rr"}
    /\ quantum' \in (IF algo' = "rr" THEN 1..MaxQuantum ELSE {DefaultQuantum})
    /\ hist' = [hist EXCEPT !.prior = [algo |-> algo, quantum |-> quantum]]
    /\ pc' = "call"
    /\ P' = <<>>
    /\ t' = 0
    /\ timeline' = <<>>
    /\ ready' = <<>>
    /\ done' = {}
    /\ it' = 1
    /\ result' = <<>>
    /\ metrics' = NoMetrics
    /\ UNCHANGED <<procs, arg>>

\* ------------------------------------------------------------- claims
\* The index in Pw of the process with the given pid (pids are unique).
IdxOf(Pw, pid) == CHOOSE j \in 1..Len(Pw) : Pw[j].pid = pid

Last(s) == s[Len(s)]

SegLen(seg) == seg[2] - seg[1]

\* Total length of the segments of tl attributed to pid.
BusyTime(tl, pid) ==
    SumSeq([k \in 1..Len(tl) |-> IF tl[k][3] = pid THEN SegLen(tl[k]) ELSE 0])

Returned == pc \in {"returned", "reported"}

\* C1: in simulate_rr, when the dispatched process p uses up its quantum with
\* remaining > 0, every other unfinished process that arrived during the run
\* (after the run's start, up to and including the new clock t) is in the ready
\* queue ahead of every entry of p.
C1_NewcomersAheadOfPreempted ==
    (pc = "rr_loop" /\ timeline # <<>> /\ Last(timeline)[3] # None) =>
        LET seg == Last(timeline)
            idx == IdxOf(P, seg[3])
        IN P[idx].remaining > 0 =>
             \A j \in 1..Len(P) :
                (j # idx /\ P[j].remaining > 0 /\ seg[1] < P[j].arrival /\ P[j].arrival <= t)
                => /\ InQueue(ready, j)
                   /\ \A a, b \in 1..Len(ready) :
                         (ready[a] = idx /\ ready[b] = j) => b < a

\* The worked example of Round Robin: P1(0,4) P2(1,3), quantum 2.
RRExample ==
    /\ algo = "rr" /\ quantum = 2
    /\ Len(procs) = 2
    /\ procs[1].pid = 1 /\ procs[1].arrival = 0 /\ procs[1].burst = 4
    /\ procs[2].pid = 2 /\ procs[2].arrival = 1 /\ procs[2].burst = 3

\* C2: simulate_rr with quantum 2 on P1(0,4) P2(1,3) returns
\* P1[0,2) P2[2,4) P1[4,6) P2[6,7); compute_metrics gives waiting P1 = 2, P2 = 3,
\* response P1 = 0, P2 = 1, and the busy time equals the span (utilization 100%).
C2_RRWorkedExample ==
    (RRExample /\ pc = "reported") =>
        /\ result = << <<0, 2, 1>>, <<2, 4, 2>>, <<4, 6, 1>>, <<6, 7, 2>> >>
        /\ metrics.status = "ok"
        /\ metrics.per_process[1].WT = 2 /\ metrics.per_process[2].WT = 3
        /\ metrics.per_process[1].RT = 0 /\ metrics.per_process[2].RT = 1
        /\ metrics.overall.CPU_UTIL.num = 100 * metrics.overall.CPU_UTIL.den

\* C3 (as claimed): no step of simulate_fcfs, simulate_sjf_nonpreemptive or
\* simulate_rr changes a Process object of the caller.
C3_CallerNeverMutated == [][procs' = procs]_vars

\* C3 (amended): the algorithms work on a private clone and leave the caller's
\* processes alone while they run; on return update_originals copies first_start,
\* completion and remaining of each clone into the caller's process of the same
\* pid, and never changes pid, arrival or burst.
C3_CopiedBackOnReturn ==
    [][/\ ~(pc # "returned" /\ pc' = "returned") => procs' = procs
       /\ (pc # "returned" /\ pc' = "returned") =>
            /\ Len(procs') = Len(procs)
            /\ \A j \in 1..Len(procs) :
                 LET c == P[IdxOf(P, procs[j].pid)]
                 IN /\ procs'[j].pid = procs[j].pid
                    /\ procs'[j].arrival = procs[j].arrival
                    /\ procs'[j].burst = procs[j].burst
                    /\ procs'[j].first_start = c.first_start
                    /\ procs'[j].completion = c.completion
                    /\ procs'[j].remaining = c.remaining]_vars

\* C3 witness: an algorithm has returned and a caller's process now carries the
\* results of the run.
C3_Witness ==
    /\ pc = "returned"
    /\ \E j \in 1..Len(procs) :
          /\ procs[j].remaining = 0
          /\ procs[j].first_start # None
          /\ procs[j].completion # None

\* C4: for a non-empty process set, the returned timeline is sorted by start, has
\* no overlaps, each segment starts where the previous one ends, the first segment
\* starts at min(arrival) and the last one ends at max(completion).
C4_TimelineCoversSpan ==
    (Returned /\ procs # <<>>) =>
        /\ result # <<>>
        /\ \A k \in 1..(Len(result) - 1) :
              /\ result[k][1] <= result[k + 1][1]
              /\ result[k][2] <= result[k + 1][1]
              /\ result[k][2] = result[k + 1][1]
        /\ result[1][1] = MinOf({procs[j].arrival : j \in 1..Len(procs)})
        /\ Last(result)[2] = MaxOf({procs[j].completion : j \in 1..Len(procs)})

\* C5: in the returned timeline the busy segments of each process add up to its
\* burst.
C5_Conservation ==
    Returned => \A j \in 1..Len(procs) : BusyTime(result, procs[j].pid) = procs[j].burst

\* C5 witness: Round Robin has returned a timeline in which some process has two
\* separate busy segments.
C5_Witness ==
    /\ Returned /\ algo = "rr"
    /\ \E a, b \in 1..Len(result) :
          a < b /\ result[a][3] = result[b][3] /\ result[a][3] # None
          /\ SegLen(result[a]) > 0 /\ SegLen(result[b]) > 0

\* C6: at every dispatch of simulate_sjf_nonpreemptive at clock t, the dispatched
\* process has arrived, is unfinished, and is the least by (burst, arrival, pid)
\* among the unfinished processes with arrival <= t; so its burst is <= theirs.
C6_SJFPicksShortest ==
    [][(pc = "sjf_loop" /\ Len(timeline') > Len(timeline) /\ Last(timeline')[3] # None) =>
         LET idx == IdxOf(P, Last(timeline')[3])
             p == P[idx]
         IN /\ p.arrival <= t /\ p.remaining > 0
            /\ Last(timeline')[1] = t
            /\ \A j \in 1..Len(P) :
                 (j # idx /\ P[j].arrival <= t /\ P[j].remaining > 0) =>
                    /\ LexLess(<<p.burst, p.arrival, p.pid>>,
                               <<P[j].burst, P[j].arrival, P[j].pid>>)
                    /\ p.burst <= P[j].burst]_vars

\* C6 witness: SJF has just dispatched a process that arrived while the previous
\* one was running, and a process with a longer burst that had arrived by then is
\* still unfinished.
C6_Witness ==
    /\ pc = "sjf_loop" /\ Len(timeline) >= 2
    /\ LET seg == Last(timeline)
           prev == timeline[Len(timeline) - 1]
       IN /\ seg[3] # None /\ prev[3] # None
          /\ P[IdxOf(P, seg[3])].arrival > prev[1]
          /\ \E j \in 1..Len(P) :
                /\ P[j].remaining > 0 /\ P[j].arrival <= seg[1]
                /\ P[j].burst > P[IdxOf(P, seg[3])].burst

\* C7: under SJF every process occupies exactly one busy segment of the timeline,
\* [first_start, first_start + burst), whatever arrives while it runs.
C7_SJFRunsToCompletion ==
    (Returned /\ algo = "sjf") =>
        \A j \in 1..Len(procs) :
            LET p == procs[j]
                own == {k \in 1..Len(result) : result[k][3] = p.pid}
            IN /\ Cardinality(own) = 1
               /\ \A k \in own : result[k] = <<p.first_start, p.first_start + p.burst, p.pid>>
               /\ p.completion = p.first_start + p.burst

\* C7 witness: SJF has returned, and a process with a strictly shorter burst
\* arrived after another process was dispatched and before it completed.
C7_Witness ==
    /\ Returned /\ algo = "sjf"
    /\ \E j, m \in 1..Len(procs) :
          /\ procs[m].burst < procs[j].burst
          /\ procs[j].first_start < procs[m].arrival
          /\ procs[m].arrival < procs[j].completion

\* C8 (as claimed): no busy segment of the timeline returned by simulate_rr is
\* longer than the quantum.
C8_ReturnedSegmentWithinQuantum ==
    (Returned /\ algo = "rr") =>
        \A k \in 1..Len(result) : result[k][3] # None => SegLen(result[k]) <= quantum

\* C8 (amended): every busy segment simulate_rr appends to its raw timeline is at
\* most one quantum long, and one shorter than the quantum leaves its process with
\* its whole burst served; a segment of the returned timeline is the merge of the
\* consecutive raw runs of one process that it spans, and can be longer.
C8_RawSegmentWithinQuantum ==
    (algo = "rr" /\ pc # "call") =>
        /\ \A k \in 1..Len(timeline) :
              timeline[k][3] # None =>
                 /\ SegLen(timeline[k]) <= quantum
                 /\ SegLen(timeline[k]) < quantum =>
                       BusyTime(SubSeq(timeline, 1, k), timeline[k][3])
                          = P[IdxOf(P, timeline[k][3])].burst
        /\ Returned =>
              \A k \in 1..Len(result) :
                 SegLen(result[k]) =
                    SumSeq([m \in 1..Len(timeline) |->
                              IF /\ timeline[m][3] = result[k][3]
                                 /\ result[k][1] <= timeline[m][1]
                                 /\ timeline[m][2] <= result[k][2]
                              THEN SegLen(timeline[m]) ELSE 0])

\* C8 witness: simulate_rr has returned a timeline with a busy segment longer than
\* the quantum.
C8_Witness ==
    /\ Returned /\ algo = "rr"
    /\ \E k \in 1..Len(result) : result[k][3] # None /\ SegLen(result[k]) > quantum

\* The busy segments of a timeline, in order.
IsBusy(seg) == seg[3] # None

BusySegs(tl) == SelectSeq(tl, IsBusy)

\* C9: simulate_fcfs dispatches every process exactly once, in ascending
\* (arrival, pid) order, with the clock starting at 0: each process has one busy
\* segment of length burst that starts at max(previous completion, its arrival),
\* and an idle segment [clock, arrival) precedes it exactly when the clock is
\* before its arrival.
C9_FCFSOrder ==
    (Returned /\ algo = "fcfs") =>
        LET busy == BusySegs(result)
            proc(k) == procs[IdxOf(procs, busy[k][3])]
            clock(k) == IF k = 1 THEN 0 ELSE busy[k - 1][2]
            gaps == {k \in 1..Len(busy) : clock(k) < proc(k).arrival}
        IN /\ Len(busy) = Len(procs)
           /\ \A j \in 1..Len(procs) :
                 Cardinality({k \in 1..Len(busy) : busy[k][3] = procs[j].pid}) = 1
           /\ \A k \in 1..(Len(busy) - 1) :
                 LexLess(<<proc(k).arrival, proc(k).pid>>,
                         <<proc(k + 1).arrival, proc(k + 1).pid>>)
           /\ \A k \in 1..Len(busy) :
                 LET start == IF clock(k) < proc(k).arrival THEN proc(k).arrival
                              ELSE clock(k)
                 IN /\ busy[k] = <<start, start + proc(k).burst, proc(k).pid>>
                    /\ proc(k).first_start = start
                    /\ proc(k).completion = start + proc(k).burst
           /\ Len(result) = Len(busy) + Cardinality(gaps)
           /\ \A k \in gaps :
                 \E m \in 1..(Len(result) - 1) :
                    /\ result[m] = <<clock(k), proc(k).arrival, None>>
                    /\ result[m + 1] = busy[k]

\* C9 witness: simulate_fcfs has returned a timeline with an idle segment between
\* two processes, after dispatching two processes of equal arrival whose list
\* order is the reverse of their pid order.
C9_Witness ==
    /\ Returned /\ algo = "fcfs"
    /\ \E m \in 2..Len(result) : result[m][3] = None
    /\ \E j, k \in 1..Len(procs) :
          j < k /\ procs[j].arrival = procs[k].arrival /\ procs[k].pid < procs[j].pid

\* C10: after a run of FCFS, SJF or RR the metrics of every process satisfy
\* waiting >= 0, turnaround >= 0, response >= 0 and response <= waiting + burst;
\* equivalently arrival <= first_start <= completion and
\* completion - arrival >= burst.
C10_MetricsNonNegative ==
    pc = "reported" =>
        /\ metrics.status = "ok"
        /\ \A j \in 1..Len(procs) :
              LET p == procs[j]
                  m == metrics.per_process[p.pid]
              IN /\ m.WT >= 0 /\ m.TAT >= 0 /\ m.RT >= 0
                 /\ m.RT <= m.WT + p.burst
                 /\ p.arrival <= p.first_start /\ p.first_start <= p.completion
                 /\ p.completion - p.arrival >= p.burst

\* C10 witness: the metrics of a run have been computed, and some process waited
\* both before its first dispatch and after it.
C10_Witness ==
    /\ pc = "reported" /\ metrics.status = "ok"
    /\ \E j \in 1..Len(procs) :
          LET m == metrics.per_process[procs[j].pid]
          IN m.RT > 0 /\ m.WT > m.RT

\* C11: a run of an algorithm (with the same quantum) on a list that already
\* carries the first_start, completion and remaining of earlier runs of any
\* algorithm returns the timeline and gives the metrics that the first run of that
\* algorithm gave on the fresh list.
C11_RerunSameAnswer ==
    (pc = "reported" /\ hist.first.algo = algo /\ hist.first.quantum = quantum) =>
        /\ result = hist.first.result
        /\ metrics = hist.first.metrics

\* C11 witness: the algorithm of the first run has run again and given its metrics,
\* on a list of two processes left behind by a run of another algorithm.
C11_Witness ==
    /\ pc = "reported" /\ Len(procs) = 2
    /\ hist.first.algo = algo /\ hist.first.quantum = quantum
    /\ hist.prior # NoRun /\ hist.prior.algo # algo
    /\ Len(hist.first.result) >= 2

\* C12: on a valid process list, with a quantum > 0 for Round Robin, the algorithm
\* that was called leaves its main loop and returns.
C12_Terminates ==
    (pc = "call" /\ ~(algo = "rr" /\ quantum <= 0)) ~> (pc = "returned")

\* C12 witness: Round Robin has returned after at least four passes of its loop,
\* one of them an idle jump.
C12_Witness ==
    /\ pc = "returned" /\ algo = "rr"
    /\ Len(timeline) >= 4
    /\ \E k \in 1..Len(timeline) : timeline[k][3] = None

\* C13: simulate_rr called with a quantum <= 0 does nothing but raise: no working
\* copy is made, no segment is produced and the caller's processes keep their
\* remaining, first_start and completion.
C13_InvalidQuantumTouchesNothing ==
    [][(pc = "call" /\ algo = "rr" /\ quantum <= 0) =>
          /\ pc' = "raised"
          /\ procs' = procs
          /\ P' = P /\ t' = t /\ ready' = ready
          /\ timeline' = timeline /\ result' = result]_vars

\* C13 witness: the call has raised, for a negative quantum, on a list of two
\* processes; there is no working copy and no segment.
C13_Witness ==
    /\ pc = "raised" /\ algo = "rr" /\ quantum < 0
    /\ Len(procs) = 2
    /\ P = <<>> /\ timeline = <<>> /\ result = <<>>
    /\ \A j \in 1..Len(procs) :
          /\ procs[j].remaining = procs[j].burst
          /\ procs[j].first_start = None
          /\ procs[j].completion = None

\* C14 as stated: a Process constructed with burst <= 0 fails with the invalid-burst
\* error, and one constructed with arrival < 0 fails with the invalid-arrival error.
C14_EachFieldItsOwnError ==
    arg # NoArg =>
        /\ (arg.burst <= 0 => pc = "invalid_burst")
        /\ (arg.arrival < 0 => pc = "invalid_arrival")

\* C14, amended: a Process constructed with burst <= 0 fails with the invalid-burst
\* error, whatever its arrival; one constructed with burst > 0 and arrival < 0 fails
\* with the invalid-arrival error; so every process of a list, and of the working copy
\* of an algorithm, has burst > 0 and arrival >= 0; a construction with burst > 0 and
\* arrival >= 0 succeeds with remaining = burst and first_start, completion unset.
C14_ConstructionChecks ==
    /\ arg # NoArg =>
          /\ (arg.burst <= 0 <=> pc = "invalid_burst")
          /\ (arg.burst > 0 /\ arg.arrival < 0 <=> pc = "invalid_arrival")
    /\ \A j \in 1..Len(procs) : procs[j].burst > 0 /\ procs[j].arrival >= 0
    /\ \A j \in 1..Len(P) : P[j].burst > 0 /\ P[j].arrival >= 0
    /\ (pc = "build" /\ arg # NoArg) =>
          /\ procs # <<>>
          /\ procs[Len(procs)] = [pid |-> arg.pid, arrival |-> arg.arrival,
                                   burst |-> arg.burst, remaining |-> arg.burst,
                                   first_start |-> None, completion |-> None]

\* C14 witness: the second construction was given a burst <= 0 and a negative
\* arrival, and failed on the burst; the first one had succeeded.
C14_Witness ==
    /\ pc = "invalid_burst" /\ arg.arrival < 0 /\ arg.burst <= 0
    /\ Len(procs) = 1
    /\ procs[1].remaining = procs[1].burst /\ procs[1].first_start = None

\* C15: compute_metrics called on a non-empty list in which some process has its
\* completion or its first_start unset raises the missing-simulation-state error and
\* returns no metrics.
C15_MissingStateRaises ==
    (pc # "metrics_call" /\ procs # <<>>
       /\ \E j \in 1..Len(procs) :
             procs[j].completion = None \/ procs[j].first_start = None) =>
        /\ pc = "metrics_raised"
        /\ metrics = [status |-> "error"]

\* C15 witness: the call raised on a list of two processes of which the first is
\* fully simulated and the second lacks only its first_start.
C15_Witness ==
    /\ pc = "metrics_raised" /\ Len(procs) = 2
    /\ procs[1].completion # None /\ procs[1].first_start # None
    /\ procs[2].completion # None /\ procs[2].first_start = None

\* The positions of tl at which a new segment of the result starts, by the rule
\* "merge two consecutive segments iff they have the same subject and the first one's
\* end is the second one's start".
Breaks(tl) ==
    {k \in 1..Len(tl) : k = 1 \/ ~(tl[k][3] = tl[k - 1][3] /\ tl[k - 1][2] = tl[k][1])}

\* The list that rule gives: one segment per maximal run of merged segments.
MergedRuns(tl) ==
    LET b == Ascending(Breaks(tl))
        last(r) == IF r = Len(b) THEN Len(tl) ELSE b[r + 1] - 1
    IN [r \in 1..Len(b) |-> <<tl[b[r]][1], tl[last(r)][2], tl[b[r]][3]>>]

\* C16: coalesce_timeline merges two consecutive segments iff they have the same
\* subject and the first one's end is the second one's start; segments of one subject
\* separated by a gap or by a segment of another subject stay separate; the order of
\* the segments, the first start and the last end are kept.
C16_MergeIffSameSubjectAndContiguous ==
    pc = "coalesced" =>
        /\ result = MergedRuns(timeline)
        /\ timeline # <<>> =>
              /\ result # <<>>
              /\ result[1][1] = timeline[1][1]
              /\ result[Len(result)][2] = timeline[Len(timeline)][2]

\* C16 witness: of three segments of process 1, the first two are contiguous and are
\* merged, and the third, after a gap, stays separate.
C16_Witness ==
    /\ pc = "coalesced"
    /\ timeline = <<(<<0, 1, 1>>), (<<1, 1, 1>>), (<<2, 2, 1>>)>>
    /\ result = <<(<<0, 1, 1>>), (<<2, 2, 1>>)>>

\* C17: every segment of the timeline an algorithm returns has end > start.
C17_NoZeroLengthSegment ==
    Returned => \A k \in 1..Len(result) : result[k][2] > result[k][1]

\* C18: during a run, the completion of a process of the working copy is assigned
\* once, at the clock at which its remaining reaches 0, and never again; its
\* first_start is assigned once, at its first dispatch.
C18_AssignedOnce ==
    [][(P # <<>> /\ Len(P') = Len(P)) =>
          \A j \in 1..Len(P) :
             /\ P[j].completion # None => P'[j].completion = P[j].completion
             /\ (P[j].completion = None /\ P'[j].completion # None) =>
                   /\ P[j].remaining > 0 /\ P'[j].remaining = 0
                   /\ P'[j].completion = t'
             /\ (P[j].remaining > 0 /\ P'[j].remaining = 0) => P'[j].completion = t'
             /\ P[j].first_start # None => P'[j].first_start = P[j].first_start
             /\ (P[j].first_start = None /\ P'[j].first_start # None) =>
                   /\ timeline' # <<>>
                   /\ Last(timeline')[3] = P[j].pid
                   /\ Last(timeline')[1] = P'[j].first_start]_vars

\* sum(p.remaining for p in P)
TotalRemaining(Pw) == SumSeq([j \in 1..Len(Pw) |-> Pw[j].remaining])

\* C19: every iteration of the main loop of simulate_rr and of
\* simulate_sjf_nonpreemptive advances the clock or takes at least one unit off the
\* total remaining burst.
C19_EveryIterationProgresses ==
    [][(pc \in {"rr_loop", "sjf_loop"} /\ pc' # "returned") =>
          \/ t' > t
          \/ TotalRemaining(P') <= TotalRemaining(P) - 1]_vars

\* C20: when an algorithm has returned, every process of the list passed to it has
\* remaining = 0 and its first_start and completion set, so that compute_metrics on
\* that list does not raise.
C20_CompleteOnReturn ==
    Returned =>
        /\ \A j \in 1..Len(procs) :
              /\ procs[j].remaining = 0
              /\ procs[j].first_start # None
              /\ procs[j].completion # None
        /\ compute_metrics(procs).status = "ok"
        /\ pc = "reported" => metrics.status = "ok"

\* C20 witness: Round Robin has returned on three processes, one of them run in more
\* than one quantum, and compute_metrics has given its metrics.
C20_Witness ==
    /\ pc = "reported" /\ algo = "rr" /\ Len(procs) = 3
    /\ \E j \in 1..Len(procs) : procs[j].burst > quantum
    /\ \A j \in 1..Len(procs) : procs[j].remaining = 0
    /\ metrics.status = "ok"

\* C21: while simulate_rr runs, the ready queue holds each process at most once and
\* holds no process whose remaining is 0.
C21_QueueHasNoDuplicateNoFinished ==
    (algo = "rr" /\ pc \in {"rr_loop", "rr_break"}) =>
        /\ \A a, b \in 1..Len(ready) : ready[a] = ready[b] => a = b
        /\ \A a \in 1..Len(ready) : P[ready[a]].remaining > 0

\* In the timeline tl of the processes ps, every idle segment [a, b) is justified:
\* each process that has arrived before b has had its whole burst in the segments
\* before the idle one.
WorkConserving(tl, ps) ==
    \A k \in 1..Len(tl) :
        tl[k][3] = None =>
            \A j \in 1..Len(ps) :
                ps[j].arrival < tl[k][2] =>
                    BusyTime(SubSeq(tl, 1, k - 1), ps[j].pid) = ps[j].burst

\* C22: the three algorithms are work-conserving: an idle segment [a, b) is in the
\* timeline, while it is built and when it is returned, only if at every time in
\* [a, b) no process that has arrived is unfinished.
C22_WorkConserving ==
    /\ WorkConserving(timeline, P)
    /\ Returned => WorkConserving(result, procs)

\* C22 witness: a returned timeline with an idle segment between two busy segments,
\* on three processes.
C22_Witness ==
    /\ Returned /\ Len(procs) = 3
    /\ \E k \in 2..(Len(result) - 1) :
          /\ result[k][3] = None
          /\ result[k - 1][3] # None
          /\ result[k + 1][3] # None

Next ==
    \/ FCFSStart
    \/ FCFSStep
    \/ FCFSReturn
    \/ SJFStart
    \/ SJFIdle
    \/ SJFDispatch
    \/ SJFReturn
    \/ RRRaise
    \/ RRStart
    \/ RRStep
    \/ RRReturn
    \/ ComputeMetrics

Spec == Init /\ [][Next]_vars

\* One request, with a quantum the caller has validated, from the call to the report.
NextLive ==
    \/ FCFSStart
    \/ FCFSStep
    \/ FCFSReturn
    \/ SJFStart
    \/ SJFIdle
    \/ SJFDispatch
    \/ SJFReturn
    \/ RRStart
    \/ RRStep
    \/ RRReturn
    \/ ComputeMetrics

SpecCoalesce == InitCoalesce /\ [][CoalesceCall]_vars

SpecMetrics == InitMetrics /\ [][MetricsCall]_vars

NextBuild ==
    \/ Construct
    \/ Submit
    \/ FCFSStart
    \/ FCFSStep
    \/ FCFSReturn
    \/ SJFStart
    \/ SJFIdle
    \/ SJFDispatch
    \/ SJFReturn
    \/ RRStart
    \/ RRStep
    \/ RRReturn
    \/ ComputeMetrics

SpecBuild == InitBuild /\ [][NextBuild]_vars

\* The program is sequential: a step that can be taken is taken.
FairSpec == InitRerun /\ [][NextLive]_vars /\ WF_vars(NextLive)

\* Round Robin alone.
NextRR ==
    \/ RRRaise
    \/ RRStart
    \/ RRStep
    \/ RRReturn
    \/ ComputeMetrics

SpecRR == InitRR /\ [][NextRR]_vars

\* Run after run on the same list, every quantum valid.
NextRerun ==
    \/ FCFSStart
    \/ FCFSStep
    \/ FCFSReturn
    \/ SJFStart
    \/ SJFIdle
    \/ SJFDispatch
    \/ SJFReturn
    \/ RRStart
    \/ RRStep
    \/ RRReturn
    \/ ComputeMetrics
    \/ Rerun

SpecRerun == InitRerun /\ [][NextRerun]_vars
====
